---------------------------- MODULE Spec2Model ----------------------------
(***************************************************************************)
(* A model of maxpreps_scraper.py (class MaxPrepsScraper): the header      *)
(* normalizer, the table classifier, row extraction, the per-category      *)
(* merge, and the per-team / per-state orchestration.                      *)
(*                                                                         *)
(* Python strings are modelled as tuples of one-character strings, so that *)
(* str.strip, str.upper, str.lower and the substring test act on the text. *)
(* A pandas DataFrame is a record [columns, rows]: the column labels in    *)
(* order and the rows in order, each row a tuple of cells as long as       *)
(* columns.  NA is the missing cell (None / NaN).                          *)
(***************************************************************************)
EXTENDS Integers, Sequences, FiniteSets, TLC

VARIABLES
    nIn, nOut, nOut2, nPc,            \* _normalize_headers: input list, first and second result
    cCols, cType,                     \* _determine_table_type: column labels, result
    eTable, eDf, ePc,                 \* _extract_table_data: raw table, resulting DataFrame
    mTables, mTeam, mResult, mPc,     \* _merge_tables_by_type: input frames, team, result
    call,                             \* process_state_teams' arguments: the lookup file's rows, state_abbr
    state_abbr, state_teams,          \* self.state_abbr, the rows of the state
    idx, pc,                          \* position of the loop over state_teams
    sinks,                            \* the four <state>_<category>_stats.csv files (lines)
    teams_without_stats               \* the <state>_teams_without_stats.csv file (lines after the header)

vars == <<nIn, nOut, nOut2, nPc, cCols, cType, eTable, eDf, ePc,
          mTables, mTeam, mResult, mPc,
          call, state_abbr, state_teams, idx, pc, sinks, teams_without_stats>>

normVars    == <<nIn, nOut, nOut2, nPc>>
classVars   == <<cCols, cType>>
extractVars == <<eTable, eDf, ePc>>
mergeVars   == <<mTables, mTeam, mResult, mPc>>
batchVars   == <<call, state_abbr, state_teams, idx, pc, sinks, teams_without_stats>>

(***************************************************************************)
(* Bounds of the model.                                                    *)
(***************************************************************************)
MaxNormList == 1      \* longest header list given to _normalize_headers
MaxCols == 3          \* longest free column list given to _determine_table_type
MaxRows == 2          \* most data rows of a raw table given to _extract_table_data
MaxMergeTables == 2   \* most frames given to _merge_tables_by_type
MaxTeams == 2         \* most rows of the lookup file

(***************************************************************************)
(* Generic sequence helpers.                                               *)
(***************************************************************************)
SeqsUpTo(S, n) == UNION {[1..k -> S] : k \in 0..n}

Range(s) == {s[i] : i \in 1..Len(s)}

RECURSIVE Concat(_)
Concat(ss) == IF ss = <<>> THEN <<>> ELSE Head(ss) \o Concat(Tail(ss))

(***************************************************************************)
(* Python str methods.                                                     *)
(***************************************************************************)
LowerLetters == <<"a","b","c","d","e","f","g","h","i","j","k","l","m","n","o","p","q","r","s","t","u","v","w","x","y","z">>
UpperLetters == <<"A","B","C","D","E","F","G","H","I","J","K","L","M","N","O","P","Q","R","S","T","U","V","W","X","Y","Z">>
Whitespace == {" ", "\t"}

upperChar(c) ==
    IF \E i \in 1..26 : LowerLetters[i] = c
    THEN UpperLetters[CHOOSE i \in 1..26 : LowerLetters[i] = c]
    ELSE c

lowerChar(c) ==
    IF \E i \in 1..26 : UpperLetters[i] = c
    THEN LowerLetters[CHOOSE i \in 1..26 : UpperLetters[i] = c]
    ELSE c

upper(s) == [i \in 1..Len(s) |-> upperChar(s[i])]

lower(s) == [i \in 1..Len(s) |-> lowerChar(s[i])]

RECURSIVE lstrip(_)
lstrip(s) ==
    IF s = <<>> THEN s
    ELSE IF Head(s) \in Whitespace THEN lstrip(Tail(s)) ELSE s

RECURSIVE rstrip(_)
rstrip(s) ==
    IF s = <<>> THEN s
    ELSE IF s[Len(s)] \in Whitespace THEN rstrip(SubSeq(s, 1, Len(s) - 1)) ELSE s

strip(s) == rstrip(lstrip(s))

\* sub in s
contains(sub, s) ==
    \E i \in 1..(Len(s) - Len(sub) + 1) : SubSeq(s, i, i + Len(sub) - 1) = sub

(***************************************************************************)
(* _normalize_headers                                                      *)
(***************************************************************************)
header_map_entries ==
    { <<<<"B","A","T","T","I","N","G"," ","A","V","G">>, <<"A","V","G">>>>, <<<<"B","A">>, <<"A","V","G">>>>,
      <<<<"R","U","N","S"," ","B","A","T","T","E","D"," ","I","N">>, <<"R","B","I">>>>, <<<<"R","B","I">>, <<"R","B","I">>>>,
      <<<<"R","U","N","S"," ","S","C","O","R","E","D">>, <<"R">>>>, <<<<"R">>, <<"R">>>>,
      <<<<"A","T"," ","B","A","T","S">>, <<"A","B">>>>, <<<<"A","B">>, <<"A","B">>>>,
      <<<<"H","I","T","S">>, <<"H">>>>, <<<<"H">>, <<"H">>>>,
      <<<<"D","O","U","B","L","E","S">>, <<"2","B">>>>, <<<<"2","B">>, <<"2","B">>>>,
      <<<<"T","R","I","P","L","E","S">>, <<"3","B">>>>, <<<<"3","B">>, <<"3","B">>>>,
      <<<<"H","O","M","E"," ","R","U","N","S">>, <<"H","R">>>>, <<<<"H","R">>, <<"H","R">>>>,
      <<<<"W","A","L","K","S">>, <<"B","B">>>>, <<<<"B","B">>, <<"B","B">>>>,
      <<<<"S","T","R","I","K","E","O","U","T","S">>, <<"K">>>>, <<<<"K">>, <<"K">>>>,
      <<<<"O","P","P","O","N","E","N","T"," ","A","V","G">>, <<"O","B","A">>>>, <<<<"O","P","P"," ","B","A">>, <<"O","B","A">>>>, <<<<"O","P","P"," ","A","V","G">>, <<"O","B","A">>>>,
      <<<<"O","N"," ","B","A","S","E"," ","%">>, <<"O","B","P">>>>, <<<<"O","N"," ","B","A","S","E"," ","P","C","T">>, <<"O","B","P">>>>,
      <<<<"W","I","L","D"," ","P","I","T","C","H","E","S">>, <<"W","P">>>>,
      <<<<"H","I","T"," ","B","A","T","T","E","R","S">>, <<"H","B","P">>>>,
      <<<<"S","A","C","R","I","F","I","C","E"," ","F","L","I","E","S">>, <<"S","F">>>>,
      <<<<"S","A","C","R","I","F","I","C","E"," ","H","I","T","S">>, <<"S","H","/","B">>>>,
      <<<<"P","I","T","C","H"," ","C","O","U","N","T">>, <<"#","P">>>>, <<<<"P","I","T","C","H","E","S">>, <<"#","P">>>>,
      <<<<"B","A","L","K","S">>, <<"B","K">>>>,
      <<<<"P","I","C","K","O","F","F","S">>, <<"P","O">>>>,
      <<<<"S","T","O","L","E","N"," ","B","A","S","E","S"," ","A","G","A","I","N","S","T">>, <<"S","B">>>>,
      <<<<"E","A","R","N","E","D"," ","R","U","N"," ","A","V","E","R","A","G","E">>, <<"E","R","A">>>>,
      <<<<"I","N","N","I","N","G","S"," ","P","I","T","C","H","E","D">>, <<"I","P">>>>,
      <<<<"F","I","E","L","D","I","N","G"," ","P","E","R","C","E","N","T","A","G","E">>, <<"F","L","D","%">>>>,
      <<<<"P","U","T","O","U","T","S">>, <<"P","O">>>>,
      <<<<"A","S","S","I","S","T","S">>, <<"A">>>>,
      <<<<"E","R","R","O","R","S">>, <<"E">>>>,
      <<<<"D","O","U","B","L","E"," ","P","L","A","Y","S">>, <<"D","P">>>>,
      <<<<"S","T","O","L","E","N"," ","B","A","S","E","S">>, <<"S","B">>>>,
      <<<<"C","A","U","G","H","T"," ","S","T","E","A","L","I","N","G">>, <<"C","S">>>>,
      <<<<"G","A","M","E","S"," ","P","L","A","Y","E","D">>, <<"G","P">>>>,
      <<<<"G","A","M","E","S"," ","S","T","A","R","T","E","D">>, <<"G","S">>>>,
      <<<<"A","P","P","E","A","R","A","N","C","E","S">>, <<"A","P","P">>>> }

\* The table with 'K' mapped on to 'SO': a canonical value that is itself a
\* key of another value.
header_map_chained ==
    (header_map_entries \ {<<<<"K">>, <<"K">>>>}) \cup {<<<<"K">>, <<"S","O">>>>}

header_map == header_map_entries

\* header_map.get(header, header)
header_map_get(header) ==
    IF \E e \in header_map : e[1] = header
    THEN (CHOOSE e \in header_map : e[1] = header)[2]
    ELSE header

normalize_headers(headers) ==
    [i \in 1..Len(headers) |-> header_map_get(upper(strip(headers[i])))]

(***************************************************************************)
(* _determine_table_type (the DataFrame branch: the only one called)       *)
(***************************************************************************)
pitching_basic == {<<"E","R","A">>, <<"W">>, <<"L">>, <<"W","%">>, <<"A","P","P">>}
pitching_advanced == {<<"I","P">>, <<"H">>, <<"R">>, <<"E","R">>, <<"B","B">>, <<"S","O">>}
pitching_additional == {<<"O","B","A">>, <<"W","P">>, <<"H","B","P">>, <<"B","K">>}
batting_required == {<<"A","V","G">>, <<"A","B">>, <<"H">>, <<"R">>, <<"R","B","I">>}
batting_additional == {<<"2","B">>, <<"3","B">>, <<"H","R">>, <<"B","B">>, <<"K">>, <<"H","B","P">>, <<"S","F">>, <<"S","H">>,
                       <<"R","O","E">>, <<"F","C">>, <<"L","O","B">>, <<"O","B","P">>, <<"S","L","G">>, <<"O","P","S">>}
fielding_required == {<<"F","P","C","T">>, <<"T","C">>, <<"F","L","D","%">>}
fielding_additional == {<<"P","O">>, <<"A">>, <<"E">>, <<"D","P">>}
baserunning_required == {<<"S","B">>, <<"C","S">>, <<"S","B","A">>}

\* x in headers, for a list
inList(x, list) == \E i \in 1..Len(list) : list[i] = x

\* The rules with batting checked before pitching.
determine_table_type_batting_first(columns) ==
    LET headers == [i \in 1..Len(columns) |-> upper(strip(columns[i]))]
        headers_set == Range(headers)
    IN  IF headers = <<>> THEN "None"
        ELSE IF \/ Cardinality(batting_required \cap headers_set) >= 2
                \/ Cardinality(batting_additional \cap headers_set) >= 2
        THEN "batting"
        ELSE IF \/ Cardinality(pitching_basic \cap headers_set) >= 3
                \/ Cardinality(pitching_advanced \cap headers_set) >= 3
                \/ Cardinality(pitching_additional \cap headers_set) >= 2
        THEN "pitching"
        ELSE IF /\ \E req \in fielding_required : inList(req, headers)
                /\ \E add \in fielding_additional : inList(add, headers)
        THEN "fielding"
        ELSE IF \E req \in baserunning_required : inList(req, headers)
        THEN "baserunning"
        ELSE "None"

determine_table_type(columns) ==
    LET headers == [i \in 1..Len(columns) |-> upper(strip(columns[i]))]
        headers_set == Range(headers)
    IN  IF headers = <<>> THEN "None"
        ELSE IF \/ Cardinality(pitching_basic \cap headers_set) >= 3
                \/ Cardinality(pitching_advanced \cap headers_set) >= 3
                \/ Cardinality(pitching_additional \cap headers_set) >= 2
        THEN "pitching"
        ELSE IF /\ \E req \in fielding_required : inList(req, headers)
                /\ \E add \in fielding_additional : inList(add, headers)
        THEN "fielding"
        ELSE IF \E req \in baserunning_required : inList(req, headers)
        THEN "baserunning"
        ELSE IF \/ Cardinality(batting_required \cap headers_set) >= 2
                \/ Cardinality(batting_additional \cap headers_set) >= 2
        THEN "batting"
        ELSE "None"


(***************************************************************************)
(* pandas                                                                  *)
(***************************************************************************)
\* A missing cell (None / NaN): a tuple that is no string, every element of a
\* string being one character.
NA == <<"NaN">>

\* pd.DataFrame()
EmptyDataFrame == [raised |-> FALSE, columns |-> <<>>, rows |-> <<>>]

\* An exception raised in place of a frame.
Raise == [raised |-> TRUE, columns |-> <<>>, rows |-> <<>>]

\* df.empty
empty(df) == df.columns = <<>> \/ df.rows = <<>>

Max(S) == CHOOSE m \in S : \A x \in S : x <= m

\* pd.DataFrame(data, columns=headers) for a non-empty list of lists: short
\* rows are padded with missing cells up to the longest row, and a header
\* count other than that width raises ValueError.
DataFrame(data, headers) ==
    LET width == Max({Len(data[i]) : i \in 1..Len(data)})
    IN  IF width # Len(headers) THEN Raise
        ELSE [raised |-> FALSE,
              columns |-> headers,
              rows |-> [i \in 1..Len(data) |->
                           [j \in 1..width |->
                               IF j <= Len(data[i]) THEN data[i][j] ELSE NA]]]

(***************************************************************************)
(* _extract_table_data.  A raw table is the list of its <tr> rows, each    *)
(* the list of the texts of its cells; the first row is the header row.    *)
(***************************************************************************)
\* The summary-row test without .lower().
keep_row_case_sensitive(row_data) ==
    /\ row_data # <<>>
    /\ Len(row_data) > 1
    /\ ~ \E x \in {<<"s","e","a","s","o","n">>, <<"t","o","t","a","l","s">>} : contains(x, row_data[2])

\* Lines 236-238: the row is added to data.
keep_row(row_data) ==
    /\ row_data # <<>>
    /\ Len(row_data) > 1
    /\ ~ \E x \in {<<"s","e","a","s","o","n">>, <<"t","o","t","a","l","s">>} : contains(x, lower(row_data[2]))

extract_table_data(table) ==
    LET headers == IF table # <<>> THEN table[1] ELSE <<>>
        data == IF table = <<>> THEN <<>> ELSE SelectSeq(Tail(table), keep_row)
    IN  IF headers # <<>> /\ data # <<>>
        THEN LET df == DataFrame(data, headers)
             IN  IF df.raised THEN EmptyDataFrame   \* except Exception: return pd.DataFrame()
                 ELSE df
        ELSE EmptyDataFrame

(***************************************************************************)
(* pandas: column selection, merge, column assignment                      *)
(***************************************************************************)
\* The positions of a frame's columns labelled `label`, in order.
Positions(columns, label) ==
    SelectSeq([j \in 1..Len(columns) |-> j], LAMBDA j : columns[j] = label)

\* df[labels]: for each label in turn every column of that label; KeyError
\* when a label is no column.
select_columns(df, labels) ==
    IF \E k \in 1..Len(labels) : ~inList(labels[k], df.columns) THEN Raise
    ELSE LET pos == Concat([k \in 1..Len(labels) |-> Positions(df.columns, labels[k])])
         IN  [raised |-> FALSE,
              columns |-> [j \in 1..Len(pos) |-> df.columns[pos[j]]],
              rows |-> [i \in 1..Len(df.rows) |->
                           [j \in 1..Len(pos) |-> df.rows[i][pos[j]]]]]

\* The key of a row: its cells in the columns `on`.
KeyOf(df, on, row) ==
    [k \in 1..Len(on) |-> row[Head(Positions(df.columns, on[k]))]]

\* A label is repeated by the suffixing without having been repeated before it.
SuffixDuplicates(old, new) ==
    \E j \in 1..Len(new) :
        /\ \E k \in 1..(j - 1) : new[k] = new[j]
        /\ ~ \E k \in 1..(j - 1) : old[k] = old[j]

\* The rows of an inner join: the rows of left that have a match in right.
merge_rows_inner(left, right, on, rcols) ==
    Concat([i \in 1..Len(left.rows) |->
        LET m == SelectSeq(right.rows,
                     LAMBDA r : KeyOf(right, on, r) = KeyOf(left, on, left.rows[i]))
        IN  [n \in 1..Len(m) |->
                 left.rows[i] \o [j \in 1..Len(rcols) |-> m[n][rcols[j]]]]])

\* The rows of pd.merge(left, right, on=on, how='outer'): every left row
\* with each right row of its key (missing cells when there is none), then
\* the right rows whose key is in no left row.  (pandas orders the rows of
\* an outer join by key; the order of the rows is not modelled.)
merge_rows(left, right, on, rcols) ==
    LET fromLeft ==
            Concat([i \in 1..Len(left.rows) |->
                LET m == SelectSeq(right.rows,
                             LAMBDA r : KeyOf(right, on, r) = KeyOf(left, on, left.rows[i]))
                IN  IF m = <<>>
                    THEN << left.rows[i] \o [j \in 1..Len(rcols) |-> NA] >>
                    ELSE [n \in 1..Len(m) |->
                             left.rows[i] \o [j \in 1..Len(rcols) |-> m[n][rcols[j]]]]])
        rightOnly ==
            SelectSeq(right.rows,
                LAMBDA r : ~ \E i \in 1..Len(left.rows) :
                               KeyOf(left, on, left.rows[i]) = KeyOf(right, on, r))
        fromRight ==
            [n \in 1..Len(rightOnly) |->
                [j \in 1..Len(left.columns) |->
                    IF inList(left.columns[j], on)
                    THEN rightOnly[n][Head(Positions(right.columns, left.columns[j]))]
                    ELSE NA]
                \o [j \in 1..Len(rcols) |-> rightOnly[n][rcols[j]]]]
    IN  fromLeft \o fromRight

\* pd.merge(left, right, on=on, how='outer'): KeyError when a key is no
\* column, ValueError when a key labels two columns of a side, MergeError
\* when the suffixes repeat a label; a label of both sides that is no key is
\* suffixed _x on the left and _y on the right.
pd_merge(left, right, on) ==
    IF \E k \in 1..Len(on) :
           Len(Positions(left.columns, on[k])) # 1 \/ Len(Positions(right.columns, on[k])) # 1
    THEN Raise
    ELSE LET rcols == SelectSeq([j \in 1..Len(right.columns) |-> j],
                          LAMBDA j : ~inList(right.columns[j], on))
             overlap == {c \in Range(left.columns) :
                            /\ ~inList(c, on)
                            /\ \E j \in 1..Len(rcols) : right.columns[rcols[j]] = c}
             llabels == [j \in 1..Len(left.columns) |->
                            IF left.columns[j] \in overlap
                            THEN left.columns[j] \o <<"_","x">> ELSE left.columns[j]]
             rold == [j \in 1..Len(rcols) |-> right.columns[rcols[j]]]
             rlabels == [j \in 1..Len(rcols) |->
                            IF rold[j] \in overlap THEN rold[j] \o <<"_","y">> ELSE rold[j]]
         IN  IF SuffixDuplicates(left.columns, llabels) \/ SuffixDuplicates(rold, rlabels)
             THEN Raise
             ELSE [raised |-> FALSE,
                   columns |-> llabels \o rlabels,
                   rows |-> merge_rows(left, right, on, rcols)]

\* df[label] = value, a scalar: every column of that label is overwritten,
\* and a new last column is added when there is none.
set_column(df, label, value) ==
    IF inList(label, df.columns)
    THEN [df EXCEPT !.rows =
             [i \in 1..Len(df.rows) |->
                 [j \in 1..Len(df.columns) |->
                     IF df.columns[j] = label THEN value ELSE df.rows[i][j]]]]
    ELSE [df EXCEPT !.columns = Append(df.columns, label),
                    !.rows = [i \in 1..Len(df.rows) |-> Append(df.rows[i], value)]]

(***************************************************************************)
(* _merge_tables_by_type                                                   *)
(***************************************************************************)
Categories == <<"batting", "pitching", "fielding", "baserunning">>   \* table_groups, in order

key_columns == << <<"#">>, <<"A","T","H","L","E","T","E"," ","N","A","M","E">> >>

\* Lines 269-275: the frames of one type, their columns stripped and
\* upper-cased.
table_group(tables, table_type) ==
    LET typed == SelectSeq(tables,
                     LAMBDA df : ~empty(df) /\ determine_table_type(df.columns) = table_type)
    IN  [i \in 1..Len(typed) |->
            [typed[i] EXCEPT !.columns =
                [j \in 1..Len(typed[i].columns) |-> upper(strip(typed[i].columns[j]))]]]

\* Lines 287-296: the frames after the first merged on in turn.
RECURSIVE merge_rest(_, _)
merge_rest(merged_df, dfs) ==
    IF dfs = <<>> \/ merged_df.raised THEN merged_df
    ELSE LET df == Head(dfs)
             right_columns == SelectSeq(df.columns, LAMBDA col : ~inList(col, key_columns))
         IN  IF right_columns = <<>> THEN merge_rest(merged_df, Tail(dfs))
             ELSE LET right == select_columns(df, key_columns \o right_columns)
                  IN  IF right.raised THEN Raise
                      ELSE merge_rest(pd_merge(merged_df, right, key_columns), Tail(dfs))

\* Lines 298-301.
add_team_information(merged_df, team_name, team_url, city_state) ==
    set_column(set_column(set_column(merged_df, <<"T","E","A","M">>, team_name),
                          <<"C","I","T","Y","_","S","T","A","T","E">>, city_state),
               <<"S","T","A","T","S","_","U","R","L">>, team_url)

\* The team information added to the first frame, before the merges.
merge_one_type_team_first(dfs, team_name, team_url, city_state) ==
    merge_rest(add_team_information(dfs[1], team_name, team_url, city_state), Tail(dfs))

\* Lines 283-303, for one non-empty group.
merge_one_type(dfs, team_name, team_url, city_state) ==
    LET merged_df == merge_rest(dfs[1], Tail(dfs))
    IN  IF merged_df.raised THEN Raise
        ELSE add_team_information(merged_df, team_name, team_url, city_state)

\* The result: the merged frame of every type that has frames, or the
\* exception raised on the way.
merge_tables_by_type(tables, team_name, team_url, city_state) ==
    LET present == {t \in Range(Categories) : table_group(tables, t) # <<>>}
        merged_tables == [t \in present |->
                             merge_one_type(table_group(tables, t),
                                            team_name, team_url, city_state)]
    IN  IF \E t \in present : merged_tables[t].raised
        THEN [raised |-> TRUE, tables |-> <<>>]
        ELSE [raised |-> FALSE, tables |-> merged_tables]

(***************************************************************************)
(* Frames and teams the specifications draw their inputs from.             *)
(***************************************************************************)
Frame(columns, rows) == [raised |-> FALSE, columns |-> columns, rows |-> rows]

BattingA ==
    Frame(<< <<"#">>, <<"A","t","h","l","e","t","e"," ","N","a","m","e">>, <<"A","V","G">>, <<"A","B">> >>,
          << << <<"1">>, <<"A","n","n">>, <<".","3","0","0">>, <<"1","0">> >>, << <<"2">>, <<"B","o","b">>, <<".","2","5","0">>, <<"8">> >> >>)
BattingB ==
    Frame(<< <<"#">>, <<"A","t","h","l","e","t","e"," ","N","a","m","e">>, <<"H">>, <<"R">>, <<"T","e","a","m">> >>,
          << << <<"2">>, <<"B","o","b">>, <<"2">>, <<"1">>, <<"J","V">> >>, << <<"3">>, <<"C","y">>, <<"3">>, <<"0">>, <<"J","V">> >> >>)
BattingSharedAB ==
    Frame(<< <<"#">>, <<"A","t","h","l","e","t","e"," ","N","a","m","e">>, <<"A","B">>, <<"R","B","I">> >>,
          << << <<"1">>, <<"A","n","n">>, <<"1","1">>, <<"4">> >>, << <<"2">>, <<"B","o","b">>, <<"9">>, <<"1">> >> >>)
BattingTwiceAVG ==
    Frame(<< <<"#">>, <<"A","t","h","l","e","t","e"," ","N","a","m","e">>, <<"A","V","G">>, <<"a","v","g"," ">>, <<"A","B">> >>,
          << << <<"1">>, <<"A","n","n">>, <<".","3","0","0">>, <<".","3","0","1">>, <<"1","0">> >> >>)
BattingRepeatedKey ==
    Frame(<< <<"#">>, <<"A","t","h","l","e","t","e"," ","N","a","m","e">>, <<"2","B">>, <<"3","B">> >>,
          << << <<"1">>, <<"A","n","n">>, <<"1">>, <<"0">> >>, << <<"1">>, <<"A","n","n">>, <<"2">>, <<"1">> >> >>)
PitchingSynonym ==
    Frame(<< <<"#">>, <<"A","t","h","l","e","t","e"," ","N","a","m","e">>, <<"E","R","A">>, <<"W">>, <<"L">>, <<"I","n","n","i","n","g","s"," ","P","i","t","c","h","e","d">> >>,
          << << <<"2">>, <<"B","o","b">>, <<"2",".","1","0">>, <<"3">>, <<"1">>, <<"2","0">> >>,
             << <<"3">>, <<"C","y">>, <<"4",".","5","0">>, <<"1">>, <<"2">>, <<"1","2">> >> >>)
PitchingAdvanced ==
    Frame(<< <<"#">>, <<"A","t","h","l","e","t","e"," ","N","a","m","e">>, <<"I","P">>, <<"H">>, <<"R">> >>,
          << << <<"3">>, <<"C","y">>, <<"1","2">>, <<"9">>, <<"6">> >> >>)
FieldingNoKeys ==
    Frame(<< <<"P","l","a","y","e","r">>, <<"F","P","C","T">>, <<"P","O">> >>, << << <<"A","n","n">>, <<".","9","5","0">>, <<"7">> >> >>)
Baserunning ==
    Frame(<< <<"#">>, <<"A","t","h","l","e","t","e"," ","N","a","m","e">>, <<"S","B">> >>, << << <<"1">>, <<"A","n","n">>, <<"5">> >> >>)
Unclassified ==
    Frame(<< <<"#">>, <<"A","t","h","l","e","t","e"," ","N","a","m","e">>, <<"G","P">> >>, << << <<"1">>, <<"A","n","n">>, <<"1","2">> >> >>)

(***************************************************************************)
(* The site: what the requests of process_team return for a stats URL.     *)
(* print_url: _get_print_url found a print link; status: the status of the *)
(* print page; tables: the <table> elements of the print page.             *)
(***************************************************************************)
Raw(frame) == <<frame.columns>> \o frame.rows

RawBattingA == Raw(BattingA) \o << << <<>>, <<"T","e","a","m"," ","T","o","t","a","l","s">>, <<".","2","7","5">>, <<"1","8">> >> >>
RawBattingB == Raw(BattingB)
RawPitching == Raw(PitchingAdvanced) \o << << <<>>, <<"2","0","2","4"," ","S","e","a","s","o","n">>, <<"1","2">>, <<"9">>, <<"6">> >> >>
RawBaserunning == Raw(Baserunning)
RawFieldingNoKeys == Raw(FieldingNoKeys)
\* A header row of four cells over a row of five.
RawMalformed ==
    << << <<"#">>, <<"A","t","h","l","e","t","e"," ","N","a","m","e">>, <<"A","V","G">>, <<"A","B">> >>,
       << <<"1">>, <<"A","n","n">>, <<".","3","0","0">>, <<"1","0">>, <<"x">> >> >>
\* A layout table: one row, one cell.
RawLayout == << << <<"P","r","i","n","t">> >> >>

ShortTables == <<RawBattingA, RawPitching, RawBattingB, RawLayout, RawBaserunning, RawLayout>>

Digits == <<"0","1","2","3","4","5","6">>

Page(print_url, status, tables) ==
    [print_url |-> print_url, status |-> status, tables |-> tables]

Web(url) ==
    CASE url = <<"/","n","o","l","i","n","k">> -> Page(FALSE, "200", <<>>)
      [] url = <<"/","g","o","n","e">> -> Page(TRUE, "404", <<>>)
      [] url = <<"/","d","o","w","n">> -> Page(TRUE, "500", <<>>)
      [] \E n \in 0..6 : url = <<"/","s","h","o","r","t">> \o <<Digits[n + 1]>> ->
             Page(TRUE, "200",
                  SubSeq(ShortTables, 1, CHOOSE n \in 0..6 : url = <<"/","s","h","o","r","t">> \o <<Digits[n + 1]>>))
      [] url = <<"/","f","u","l","l">> ->
             Page(TRUE, "200", <<RawBattingA, RawLayout, RawBattingB, RawPitching,
                                 RawLayout, RawLayout, RawBaserunning>>)
      [] url = <<"/","b","a","d","t","a","b","l","e">> ->
             Page(TRUE, "200", <<RawBattingA, RawMalformed, RawBattingB, RawPitching,
                                 RawLayout, RawLayout, RawLayout, RawLayout>>)
      [] url = <<"/","n","o","k","e","y","s">> ->
             Page(TRUE, "200", <<RawFieldingNoKeys, RawFieldingNoKeys, RawBattingA, RawLayout,
                                 RawLayout, RawLayout, RawLayout>>)
      [] url = <<"/","b","l","a","n","k">> ->
             Page(TRUE, "200", <<RawLayout, RawLayout, RawLayout, RawLayout,
                                 RawLayout, RawLayout, RawLayout>>)
      [] url = <<"/","d","o","v","e","r">> ->
             Page(TRUE, "200", <<RawPitching, RawLayout, RawLayout, RawLayout,
                                 RawLayout, RawLayout, RawLayout>>)

(***************************************************************************)
(* process_team                                                            *)
(***************************************************************************)
MinTables == 7

\* _save_team_without_stats: one line appended to the file.
save_team_without_stats(file, team_name, stats_url, reason, tables_found) ==
    Append(file, <<team_name, stats_url, reason, tables_found>>)

\* The threshold one lower.
too_few_tables_off_by_one(n) == n < MinTables - 1

\* Line 353.
too_few_tables(n) == n < MinTables

\* The loop left at the first table that gives no frame.
extract_tables_break(tables) ==
    LET dfs == [i \in 1..Len(tables) |-> extract_table_data(tables[i])]
        bad == {i \in 1..Len(dfs) : dfs[i].raised \/ empty(dfs[i])}
    IN  IF bad = {} THEN dfs
        ELSE SubSeq(dfs, 1, (CHOOSE i \in bad : \A k \in bad : i <= k) - 1)

\* Lines 361-369: the frames of the tables that give one.
extract_tables(tables) ==
    LET dfs == [i \in 1..Len(tables) |-> extract_table_data(tables[i])]
    IN  SelectSeq(dfs, LAMBDA df : ~df.raised /\ ~empty(df))

\* df.to_csv(output_file, mode='a', header=not os.path.exists(output_file),
\* index=False): the lines of the file; a missing cell is written empty.
to_csv(file, df) ==
    file \o (IF file = <<>> THEN <<df.columns>> ELSE <<>>)
         \o [i \in 1..Len(df.rows) |->
                [j \in 1..Len(df.columns) |->
                    IF df.rows[i][j] = NA THEN <<>> ELSE df.rows[i][j]]]

\* Lines 375-378.
save_merged_tables(files, merged_tables) ==
    [t \in DOMAIN files |->
        IF t \in DOMAIN merged_tables THEN to_csv(files[t], merged_tables[t]) ELSE files[t]]

\* What process_team leaves: the files, and whether it raised.
Outcome(raised, files, log) == [raised |-> raised, sinks |-> files, teams_without_stats |-> log]

\* The exception raised on to the caller, nothing recorded.
on_team_error_propagate(files, log, team_name, team_url) ==
    Outcome(TRUE, files, log)

\* Lines 382-384.
on_team_error(files, log, team_name, team_url) ==
    Outcome(FALSE, files, save_team_without_stats(log, team_name, team_url, "Error", 0))

process_team(team_info, files, log) ==
    LET team_name == team_info.school
        team_url == team_info.stats_url
        city_state == team_info.city_state
        page == Web(team_url)
        tables == page.tables
    IN  IF ~page.print_url
        THEN Outcome(FALSE, files,
                 save_team_without_stats(log, team_name, team_url, "No print URL found", 0))
        ELSE IF page.status = "404"
        THEN Outcome(FALSE, files,
                 save_team_without_stats(log, team_name, team_url, "404 Error", 0))
        ELSE IF page.status # "200"            \* response.raise_for_status()
        THEN on_team_error(files, log, team_name, team_url)
        ELSE IF tables = <<>>
        THEN Outcome(FALSE, files,
                 save_team_without_stats(log, team_name, team_url, "No tables found", 0))
        ELSE IF too_few_tables(Len(tables))
        THEN Outcome(FALSE, files,
                 save_team_without_stats(log, team_name, team_url, "Insufficient tables",
                                         Len(tables)))
        ELSE LET table_dfs == extract_tables(tables)
                 merged == merge_tables_by_type(table_dfs, team_name, team_url, city_state)
             IN  IF merged.raised
                 THEN on_team_error(files, log, team_name, team_url)
                 ELSE Outcome(FALSE, save_merged_tables(files, merged.tables), log)

(***************************************************************************)
(* Idle values: what a specification leaves alone.                         *)
(***************************************************************************)
NormIdle == nIn = <<>> /\ nOut = <<>> /\ nOut2 = <<>> /\ nPc = "idle"
ClassIdle == cCols = <<>> /\ cType = "idle"
ExtractIdle == eTable = <<>> /\ eDf = <<>> /\ ePc = "idle"
MergeIdle == mTables = <<>> /\ mTeam = <<>> /\ mResult = <<>> /\ mPc = "idle"
BatchIdle ==
    /\ call = <<>> /\ state_abbr = <<>> /\ state_teams = <<>>
    /\ idx = 0 /\ pc = "idle" /\ sinks = <<>> /\ teams_without_stats = <<>>

(***************************************************************************)
(* SpecNormalize: _normalize_headers applied to a header list, and then to *)
(* its own result.                                                         *)
(***************************************************************************)
\* Every key and every value of the synonym table, and unmapped strings.
BaseHeaders ==
    {e[1] : e \in header_map} \cup {e[2] : e \in header_map}
        \cup {<<"X">>, <<"A","T","H","L","E","T","E"," ","N","A","M","E">>, <<"#">>, <<>>, <<"S","O">>, <<"W","%">>}

LeftPads == {<<>>, <<" ">>}
RightPads == {<<>>, <<" "," ">>}
Decorations == [l : LeftPads, r : RightPads, low : BOOLEAN]

\* A raw header as scraped: the text in either letter case, padded.
Decorate(h, d) == d.l \o (IF d.low THEN lower(h) ELSE h) \o d.r

InitNormalize ==
    /\ \E base \in SeqsUpTo(BaseHeaders, MaxNormList), d \in Decorations :
           /\ base # <<>>
           /\ nIn = [i \in 1..Len(base) |-> Decorate(base[i], d)]
    /\ nOut = <<>> /\ nOut2 = <<>> /\ nPc = "in"
    /\ ClassIdle /\ ExtractIdle /\ MergeIdle /\ BatchIdle

NormalizeOnce ==
    /\ nPc = "in"
    /\ nOut' = normalize_headers(nIn)
    /\ nPc' = "once"
    /\ UNCHANGED <<nIn, nOut2, classVars, extractVars, mergeVars, batchVars>>

NormalizeAgain ==
    /\ nPc = "once"
    /\ nOut2' = normalize_headers(nOut)
    /\ nPc' = "twice"
    /\ UNCHANGED <<nIn, nOut, classVars, extractVars, mergeVars, batchVars>>

NextNormalize == NormalizeOnce \/ NormalizeAgain

SpecNormalize == InitNormalize /\ [][NextNormalize]_vars

\* C2: header normalization is idempotent: normalizing the result of
\* _normalize_headers returns it unchanged, for every raw header (keys and
\* values of the synonym table in either case and padded, and unmapped
\* strings); no canonical value of the table is a key of a different value.
C2_NormalizeIdempotent ==
    /\ nPc = "twice" => nOut2 = nOut
    /\ \A e \in header_map : header_map_get(e[2]) = e[2]

\* A padded lower-case synonym was mapped to its canonical value and
\* normalized again.
C2_Witness ==
    /\ nPc = "twice"
    /\ nIn = << <<" ","s","t","r","i","k","e","o","u","t","s"," "," ">> >>
    /\ nOut = << <<"K">> >>

(***************************************************************************)
(* SpecClassify: _determine_table_type applied to a list of column labels. *)
(***************************************************************************)
ClassifyAlphabet ==
    { <<"E","R","A">>, <<"W">>, <<"L">>, <<"H">>, <<"R">>, <<"B","B">>, <<"H","B","P">>, <<"W","P">>, <<"F","P","C","T">>, <<"P","O">>,
      <<"S","B">>, <<"A","V","G">>, <<"X">>, <<" ","h">>, <<"e","r","a"," "," ">> }

\* The header rows of the specification's examples.
ClassifyExamples ==
    { << <<"E","R","A">>, <<"W">>, <<"L">>, <<"I","P">>, <<"H">>, <<"R">>, <<"E","R">>, <<"B","B">>, <<"S","O">> >>,
      << <<"A","V","G">>, <<"A","B">>, <<"H">>, <<"R">>, <<"R","B","I">>, <<"H","R">> >>,
      << <<"F","P","C","T">>, <<"P","O">>, <<"A">>, <<"E">> >>,
      << <<"S","B">>, <<"C","S">> >>,
      << <<"X">>, <<"Y">>, <<"Z">> >> }

InitClassify ==
    /\ cCols \in SeqsUpTo(ClassifyAlphabet, MaxCols) \cup ClassifyExamples
    /\ cType = "unset"
    /\ NormIdle /\ ExtractIdle /\ MergeIdle /\ BatchIdle

Classify ==
    /\ cType = "unset"
    /\ cType' = determine_table_type(cCols)
    /\ UNCHANGED <<cCols, normVars, extractVars, mergeVars, batchVars>>

NextClassify == Classify

SpecClassify == InitClassify /\ [][NextClassify]_vars

\* The set of trimmed, upper-cased headers of a header row.
HeaderSet(cols) == {upper(strip(cols[i])) : i \in 1..Len(cols)}

AtLeast(n, indicators, hs) == Cardinality(indicators \cap hs) >= n

\* The ordered rule list of the claim, on a header set.
FirstMatch(hs) ==
    CASE \/ AtLeast(3, {<<"E","R","A">>, <<"W">>, <<"L">>, <<"W","%">>, <<"A","P","P">>}, hs)
         \/ AtLeast(3, {<<"I","P">>, <<"H">>, <<"R">>, <<"E","R">>, <<"B","B">>, <<"S","O">>}, hs)
         \/ AtLeast(2, {<<"O","B","A">>, <<"W","P">>, <<"H","B","P">>, <<"B","K">>}, hs) -> "pitching"
      [] OTHER ->
    CASE /\ AtLeast(1, {<<"F","P","C","T">>, <<"T","C">>, <<"F","L","D","%">>}, hs)
         /\ AtLeast(1, {<<"P","O">>, <<"A">>, <<"E">>, <<"D","P">>}, hs) -> "fielding"
      [] OTHER ->
    CASE AtLeast(1, {<<"S","B">>, <<"C","S">>, <<"S","B","A">>}, hs) -> "baserunning"
      [] OTHER ->
    CASE \/ AtLeast(2, {<<"A","V","G">>, <<"A","B">>, <<"H">>, <<"R">>, <<"R","B","I">>}, hs)
         \/ AtLeast(2, {<<"2","B">>, <<"3","B">>, <<"H","R">>, <<"B","B">>, <<"K">>, <<"H","B","P">>, <<"S","F">>, <<"S","H">>,
                        <<"R","O","E">>, <<"F","C">>, <<"L","O","B">>, <<"O","B","P">>, <<"S","L","G">>, <<"O","P","S">>}, hs) -> "batting"
      [] OTHER -> "None"

ExtractHeaderRows == { <<>>, << <<"#">>, <<"A","t","h","l","e","t","e"," ","N","a","m","e">>, <<"A","V","G">> >> }

ExtractRows ==
    { << <<"1">>, <<"A","n","n"," ","L","e","e">>, <<".","3","0","0">> >>,
      << <<"2">>, <<"B","o","b"," ","R","a","y">>, <<".","2","5","0">> >>,
      << <<>>, <<"T","e","a","m"," ","T","o","t","a","l","s">>, <<".","2","7","5">> >>,
      << <<>>, <<"2","0","2","4"," ","S","e","a","s","o","n">>, <<".","2","7","0">> >>,
      << <<>>, <<"S","E","A","S","O","N"," ","T","O","T","A","L","S">>, <<>> >>,
      << <<"3">>, <<"J","a","s","o","n"," ","S","e","a","s","o","n","s">>, <<".","1","0","0">> >>,
      << <<"T","o","t","a","l","s">>, <<"D","e","e"," ","F","o","x">>, <<".","1","0","0">> >>,
      << <<"R","o","s","t","e","r">> >>,
      <<>>,
      << <<"4">>, <<"C","y"," ","O","t","t">> >>,
      << <<"5">>, <<"E","l","i"," ","O","r","r">>, <<".","4","0","0">>, <<"x">> >>,
      << <<"6">>, <<"T","e","a","m"," ","T","o","t","a","l","s">>, <<".","2","7","5">>, <<"x">> >> }

InitExtract ==
    /\ \/ eTable = <<>>
       \/ \E h \in ExtractHeaderRows, rows \in SeqsUpTo(ExtractRows, MaxRows) :
              eTable = <<h>> \o rows
    /\ eDf = <<>> /\ ePc = "in"
    /\ NormIdle /\ ClassIdle /\ MergeIdle /\ BatchIdle

Extract ==
    /\ ePc = "in"
    /\ eDf' = extract_table_data(eTable)
    /\ ePc' = "done"
    /\ UNCHANGED <<eTable, normVars, classVars, mergeVars, batchVars>>

NextExtract == Extract

SpecExtract == InitExtract /\ [][NextExtract]_vars

\* The athlete-name cell names a summary row: it holds 'season' or 'totals'
\* in some letter case.
IsSummaryName(name) ==
    \E i \in 1..Len(name) : \E w \in {<<"S","E","A","S","O","N">>, <<"T","O","T","A","L","S">>} :
        /\ i + Len(w) - 1 <= Len(name)
        /\ \A k \in 1..Len(w) : upperChar(name[i + k - 1]) = w[k]

\* The non-header rows with at least two cells that are no summary rows, in
\* their order.
AthleteRows(table) ==
    IF table = <<>> THEN <<>>
    ELSE LET Ok(r) == Len(r) >= 2 /\ ~IsSummaryName(r[2])
         IN  SelectSeq(Tail(table), Ok)

PadTo(row, n) == [j \in 1..n |-> IF j <= Len(row) THEN row[j] ELSE NA]

\* The table becomes a DataFrame: a non-empty header row, at least one
\* athlete row, and the longest athlete row as long as the header row.
Extractable(table) ==
    /\ table # <<>> /\ table[1] # <<>>
    /\ AthleteRows(table) # <<>>
    /\ \A i \in 1..Len(AthleteRows(table)) : Len(AthleteRows(table)[i]) <= Len(table[1])
    /\ \E i \in 1..Len(AthleteRows(table)) : Len(AthleteRows(table)[i]) = Len(table[1])

\* C9 as stated: no returned row is a summary row, and every other
\* non-header row with at least two cells is returned unchanged, in order.
C9_AsStated ==
    ePc = "done" =>
        /\ \A i \in 1..Len(eDf.rows) : ~IsSummaryName(eDf.rows[i][2])
        /\ eDf.rows = AthleteRows(eTable)

\* C9 amended: no returned row is a summary row; when the table becomes a
\* DataFrame the returned rows are the athlete rows in their order, each
\* with its cells unchanged and padded with missing cells up to the header
\* count; otherwise no row is returned.
C9_RowFilter ==
    ePc = "done" =>
        /\ \A i \in 1..Len(eDf.rows) : ~IsSummaryName(eDf.rows[i][2])
        /\ Extractable(eTable) =>
               /\ eDf.columns = eTable[1]
               /\ eDf.rows = [i \in 1..Len(AthleteRows(eTable)) |->
                                 PadTo(AthleteRows(eTable)[i], Len(eTable[1]))]
        /\ ~Extractable(eTable) => eDf.rows = <<>>

\* A table with a summary row between athlete rows was extracted and the
\* athlete rows came back.
C9_Witness ==
    /\ ePc = "done"
    /\ Len(eTable) = 3
    /\ Len(eTable[2]) = 3
    /\ eTable[2][2] = <<"T","e","a","m"," ","T","o","t","a","l","s">>
    /\ eDf.rows = << << <<"1">>, <<"A","n","n"," ","L","e","e">>, <<".","3","0","0">> >> >>

(***************************************************************************)
(* SpecMerge: _merge_tables_by_type applied to the extracted frames of one *)
(* team.                                                                   *)
(***************************************************************************)
MergeFrames ==
    { BattingA, BattingB, BattingSharedAB, BattingTwiceAVG, BattingRepeatedKey,
      PitchingSynonym, PitchingAdvanced, FieldingNoKeys, Baserunning, Unclassified,
      EmptyDataFrame }

MergeTeams ==
    { [school |-> <<"E","l","k"," ","L","a","k","e">>, city_state |-> <<"E","r","i","e",","," ","P","A">>, stats_url |-> <<"/","e","l","k","/","s","t","a","t","s">>],
      [school |-> <<"D","o","v","e","r">>, city_state |-> <<"D","o","v","e","r",","," ","D","E">>, stats_url |-> <<"/","d","o","v","e","r","/","s","t","a","t","s">>] }

InitMerge ==
    /\ mTables \in SeqsUpTo(MergeFrames, MaxMergeTables)
    /\ mTeam \in MergeTeams
    /\ mResult = <<>> /\ mPc = "in"
    /\ NormIdle /\ ClassIdle /\ ExtractIdle /\ BatchIdle

Merge ==
    /\ mPc = "in"
    /\ mResult' = merge_tables_by_type(mTables, mTeam.school, mTeam.stats_url, mTeam.city_state)
    /\ mPc' = "done"
    /\ UNCHANGED <<mTables, mTeam, normVars, classVars, extractVars, batchVars>>

NextMerge == Merge

SpecMerge == InitMerge /\ [][NextMerge]_vars

\* The categories that have a merged table.
MergedTypes == IF mPc = "done" /\ ~mResult.raised THEN DOMAIN mResult.tables ELSE {}

\* The source tables of a category, with the labels the merge sees.
Sources(t) == table_group(mTables, t)

HasKeyColumns(df) == \A k \in 1..2 : Len(Positions(df.columns, key_columns[k])) = 1

Keys(df) == {KeyOf(df, key_columns, df.rows[i]) : i \in 1..Len(df.rows)}

RowsOfKey(df, key) == {i \in 1..Len(df.rows) : KeyOf(df, key_columns, df.rows[i]) = key}

InjectedColumns == { <<"T","E","A","M">>, <<"C","I","T","Y","_","S","T","A","T","E">>, <<"S","T","A","T","S","_","U","R","L">> }

\* A column that exactly one source table contributes: src has it, it is no
\* key and no other source table of the category has it.
OnlyFrom(t, n, label) ==
    /\ inList(label, Sources(t)[n].columns)
    /\ ~inList(label, key_columns)
    /\ \A m \in 1..Len(Sources(t)) : m # n => ~inList(label, Sources(t)[m].columns)

\* The cells of the columns that only a table lacking the row's key
\* contributes are missing.
EmptyWhereLacking(t) ==
    LET merged == mResult.tables[t]
    IN  \A n \in 1..Len(Sources(t)) : \A label \in Range(Sources(t)[n].columns) :
            OnlyFrom(t, n, label) /\ label \notin InjectedColumns =>
                \A i \in 1..Len(merged.rows) :
                    KeyOf(merged, key_columns, merged.rows[i]) \notin Keys(Sources(t)[n]) =>
                        \A j \in 1..Len(merged.columns) :
                            merged.columns[j] = label => merged.rows[i][j] = NA

\* C3 as stated: every key of a source table is in exactly one row of the
\* merged table, and the cells contributed only by a table lacking the key
\* are empty.
C3_AsStated ==
    \A t \in MergedTypes :
        (\A n \in 1..Len(Sources(t)) : HasKeyColumns(Sources(t)[n])) =>
            /\ \A n \in 1..Len(Sources(t)) : \A key \in Keys(Sources(t)[n]) :
                   Cardinality(RowsOfKey(mResult.tables[t], key)) = 1
            /\ EmptyWhereLacking(t)

\* C3 amended: the merge is an outer join on ('#', athlete name): every key
\* of a source table is in at least one row of the merged table, and in
\* exactly one when no source table holds it in two rows; every row's key
\* is a key of a source table; the cells of a column (other than the three
\* injected ones) contributed only by a table lacking the row's key are
\* empty.
C3_OuterJoin ==
    \A t \in MergedTypes :
        (\A n \in 1..Len(Sources(t)) : HasKeyColumns(Sources(t)[n])) =>
            /\ \A n \in 1..Len(Sources(t)) : \A key \in Keys(Sources(t)[n]) :
                   /\ Cardinality(RowsOfKey(mResult.tables[t], key)) >= 1
                   /\ (\A m \in 1..Len(Sources(t)) :
                           Cardinality(RowsOfKey(Sources(t)[m], key)) <= 1)
                       => Cardinality(RowsOfKey(mResult.tables[t], key)) = 1
            /\ Keys(mResult.tables[t]) = UNION {Keys(Sources(t)[n]) : n \in 1..Len(Sources(t))}
            /\ EmptyWhereLacking(t)

\* The example of the specification: athletes 1,2 of one table and 2,3 of
\* another give three rows, athlete 1 without the second table's cells and
\* athlete 3 without the first table's.
C3_Witness ==
    /\ mPc = "done" /\ ~mResult.raised
    /\ mTables = <<BattingA, BattingB>>
    /\ "batting" \in DOMAIN mResult.tables
    /\ Len(mResult.tables["batting"].rows) = 3
    /\ \E i \in 1..3 :
           /\ mResult.tables["batting"].rows[i][2] = <<"A","n","n">>
           /\ mResult.tables["batting"].rows[i][5] = NA
    /\ \E i \in 1..3 :
           /\ mResult.tables["batting"].rows[i][2] = <<"C","y">>
           /\ mResult.tables["batting"].rows[i][3] = NA

NoRepeat(seq) == \A j, k \in 1..Len(seq) : j # k => seq[j] # seq[k]

\* C4: the columns of a merged table are exactly the union of the headers of
\* the category's source tables plus the three injected columns, each
\* distinct header one column under its own name, also when source tables
\* share a header that is no key or when one table has a header twice.
C4_ColumnsAreUnion ==
    \A t \in MergedTypes :
        /\ Range(mResult.tables[t].columns) =
               UNION {Range(Sources(t)[n].columns) : n \in 1..Len(Sources(t))}
                   \cup InjectedColumns
        /\ NoRepeat(mResult.tables[t].columns)

\* C5: every header of every table of a group is normalized with the
\* synonym table before the merge: no merged column is left under a
\* synonym, and the canonical abbreviation of every source header that only
\* one table has is a column of the merged table.
C5_HeadersNormalized ==
    \A t \in MergedTypes :
        /\ \A j \in 1..Len(mResult.tables[t].columns) :
               header_map_get(mResult.tables[t].columns[j]) = mResult.tables[t].columns[j]
        /\ \A n \in 1..Len(Sources(t)) : \A label \in Range(Sources(t)[n].columns) :
               OnlyFrom(t, n, label) =>
                   inList(header_map_get(label), mResult.tables[t].columns)

\* What the three injected columns hold for the team.
TeamValue(team, label) ==
    CASE label = <<"T","E","A","M">> -> team.school
      [] label = <<"C","I","T","Y","_","S","T","A","T","E">> -> team.city_state
      [] label = <<"S","T","A","T","S","_","U","R","L">> -> team.stats_url

\* C10: every row of every merged table of a team carries that team's name,
\* city/state and source URL in the three injected columns, the rows that
\* only a later source table contributes included, whatever the source
\* tables hold.
C10_TeamOnEveryRow ==
    \A t \in MergedTypes : \A label \in InjectedColumns :
        /\ inList(label, mResult.tables[t].columns)
        /\ \A i \in 1..Len(mResult.tables[t].rows) :
               \A j \in 1..Len(mResult.tables[t].columns) :
                   mResult.tables[t].columns[j] = label =>
                       mResult.tables[t].rows[i][j] = TeamValue(mTeam, label)

\* A row that only the second source table contributes (athlete 3), from a
\* table with a column 'Team' of its own, carries the team's three values.
C10_Witness ==
    /\ mPc = "done" /\ ~mResult.raised
    /\ mTables = <<BattingA, BattingB>>
    /\ LET merged == mResult.tables["batting"]
       IN  \E i \in 1..Len(merged.rows) :
               /\ merged.rows[i][2] = <<"C","y">>
               /\ \A label \in InjectedColumns :
                      merged.rows[i][Head(Positions(merged.columns, label))]
                          = TeamValue(mTeam, label)

(***************************************************************************)
(* Spec: process_state_teams over a lookup file, one team at a time.       *)
(***************************************************************************)
Team(school, stats_url, abbr) ==
    [school |-> school, city_state |-> school \o <<","," ">> \o upper(abbr),
     stats_url |-> stats_url, abbr |-> abbr]

BatchTeams ==
    { Team(<<"N","o"," ","L","i","n","k">>, <<"/","n","o","l","i","n","k">>, <<"p","a">>),
      Team(<<"G","o","n","e">>, <<"/","g","o","n","e">>, <<"p","a">>),
      Team(<<"D","o","w","n">>, <<"/","d","o","w","n">>, <<"p","a">>),
      Team(<<"F","u","l","l">>, <<"/","f","u","l","l">>, <<"p","a">>),
      Team(<<"B","a","d"," ","T","a","b","l","e">>, <<"/","b","a","d","t","a","b","l","e">>, <<"p","a">>),
      Team(<<"N","o"," ","K","e","y","s">>, <<"/","n","o","k","e","y","s">>, <<"p","a">>),
      Team(<<"B","l","a","n","k">>, <<"/","b","l","a","n","k">>, <<"p","a">>),
      Team(<<"D","o","v","e","r">>, <<"/","d","o","v","e","r">>, <<"d","e">>) }
        \cup { Team(<<"S","h","o","r","t"," ">> \o <<Digits[n + 1]>>, <<"/","s","h","o","r","t">> \o <<Digits[n + 1]>>, <<"p","a">>) :
                   n \in 0..6 }

NoFiles == [t \in Range(Categories) |-> <<>>]

\* The files an earlier run of the state left.
StaleFiles ==
    [sinks |-> [NoFiles EXCEPT !["batting"] = << << <<"#">>, <<"T","E","A","M">> >>, << <<"9">>, <<"O","l","d">> >> >>],
     teams_without_stats |-> << << <<"O","l","d">>, <<"/","o","l","d">>, "404 Error", 0 >> >>]

InitBatch ==
    /\ \E lookup_file \in SeqsUpTo(BatchTeams, MaxTeams), abbr \in { <<"P","A">>, <<"d","e">> } :
           call = [lookup_file |-> lookup_file, state_abbr |-> abbr]
    /\ state_abbr = <<>>
    /\ state_teams = <<>>
    /\ idx = 0
    /\ pc = "start"
    /\ \/ sinks = NoFiles /\ teams_without_stats = <<>>
       \/ sinks = StaleFiles.sinks /\ teams_without_stats = StaleFiles.teams_without_stats
    /\ NormIdle /\ ClassIdle /\ ExtractIdle /\ MergeIdle

\* Lines 389-416: the files of the state are started afresh and the teams
\* of the state are read.
Begin ==
    /\ pc = "start"
    /\ state_abbr' = lower(call.state_abbr)
    /\ teams_without_stats' = <<>>
    /\ sinks' = NoFiles
    /\ state_teams' = SelectSeq(call.lookup_file,
                          LAMBDA team : team.abbr = lower(call.state_abbr))
    /\ idx' = 1
    /\ pc' = IF state_teams' = <<>> THEN "done" ELSE "loop"
    /\ UNCHANGED <<call, normVars, classVars, extractVars, mergeVars>>

\* Lines 419-426: one turn of the loop; an exception out of process_team
\* ends the run.
ProcessTeam ==
    /\ pc = "loop"
    /\ LET r == process_team(state_teams[idx], sinks, teams_without_stats)
       IN  /\ sinks' = r.sinks
           /\ teams_without_stats' = r.teams_without_stats
           /\ idx' = IF r.raised THEN idx ELSE idx + 1
           /\ pc' = IF r.raised \/ idx = Len(state_teams) THEN "done" ELSE "loop"
    /\ UNCHANGED <<call, state_abbr, state_teams, normVars, classVars, extractVars, mergeVars>>

Next == Begin \/ ProcessTeam

Spec == InitBatch /\ [][Next]_vars

\* The page of the team the loop is at.
CurrentTeam == state_teams[idx]
CurrentPage == Web(CurrentTeam.stats_url)
Fetched(page) == page.print_url /\ page.status = "200"

\* C6: a team whose fetched page holds n < 7 tables gets no row in any
\* category sink and exactly one diagnostic record, with the count n
\* ('Insufficient tables' for 1..6, 'No tables found' with 0 for none).
C6_TooFewTables ==
    [][ (pc = "loop" /\ Fetched(CurrentPage) /\ Len(CurrentPage.tables) < 7) =>
            /\ sinks' = sinks
            /\ teams_without_stats' =
                   Append(teams_without_stats,
                          << CurrentTeam.school, CurrentTeam.stats_url,
                             IF Len(CurrentPage.tables) = 0
                             THEN "No tables found" ELSE "Insufficient tables",
                             Len(CurrentPage.tables) >>) ]_vars

\* A team with five tables, three of them of statistics, was processed: one
\* record with the count 5 and no line in any sink.
C6_Witness ==
    /\ pc \in {"loop", "done"} /\ idx = 2
    /\ state_teams[1].stats_url = <<"/","s","h","o","r","t","5">>
    /\ Len(Web(state_teams[1].stats_url).tables) = 5
    /\ teams_without_stats = << << <<"S","h","o","r","t"," ","5">>, <<"/","s","h","o","r","t","5">>, "Insufficient tables", 5 >> >>
    /\ sinks = NoFiles

\* The team fails: no print URL, a fetch error or 404, no or too few
\* tables, or an error raised while its tables are merged.
Fails(team) ==
    LET page == Web(team.stats_url)
    IN  \/ ~page.print_url
        \/ page.status # "200"
        \/ Len(page.tables) < 7
        \/ merge_tables_by_type(extract_tables(page.tables), team.school,
                                team.stats_url, team.city_state).raised

\* C7: no failure of a team ends the batch: the loop goes through every
\* team of the state once, in order; every failed team has one record in
\* the failure log (so none is retried), in the order of the teams, and the
\* rows of every other team, also one after a failed team, are in the sinks.
C7_BatchSurvivesFailures ==
    pc \in {"loop", "done"} =>
        LET done == SelectSeq([i \in 1..(idx - 1) |-> i], LAMBDA i : Fails(state_teams[i]))
        IN  /\ pc = "done" => idx = Len(state_teams) + 1
            /\ idx <= Len(state_teams) + 1
            /\ Len(teams_without_stats) = Len(done)
            /\ \A k \in 1..Len(done) :
                   /\ teams_without_stats[k][1] = state_teams[done[k]].school
                   /\ teams_without_stats[k][2] = state_teams[done[k]].stats_url
            /\ \A i \in 1..(idx - 1) : ~Fails(state_teams[i]) =>
                   LET team == state_teams[i]
                       m == merge_tables_by_type(extract_tables(Web(team.stats_url).tables),
                                team.school, team.stats_url, team.city_state)
                   IN  \A t \in DOMAIN m.tables :
                           \E n \in 1..Len(sinks[t]) : inList(team.school, sinks[t][n])

\* A run of two teams ended: the first failed in the merge and is recorded,
\* and the second, processed after it, has its rows in the sinks.
C7_Witness ==
    /\ pc = "done" /\ Len(state_teams) = 2
    /\ state_teams[1].stats_url = <<"/","n","o","k","e","y","s">>
    /\ state_teams[2].stats_url = <<"/","f","u","l","l">>
    /\ teams_without_stats = << << <<"N","o"," ","K","e","y","s">>, <<"/","n","o","k","e","y","s">>, "Error", 0 >> >>
    /\ Len(sinks["batting"]) = 4

\* The frame of a table that becomes one.
FrameOf(table) ==
    Frame(table[1],
          [i \in 1..Len(AthleteRows(table)) |-> PadTo(AthleteRows(table)[i], Len(table[1]))])

\* C8: a table that cannot be turned into rows and columns is dropped and
\* nothing else: for a team of 7 or more tables, the sinks and the failure
\* log change as the merge of the frames of the remaining tables says; the
\* team is recorded as failed only when that merge itself raises.
C8_OnlyTheTableIsDropped ==
    [][ (pc = "loop" /\ Fetched(CurrentPage) /\ Len(CurrentPage.tables) >= 7) =>
            LET good == SelectSeq(CurrentPage.tables, Extractable)
                m == merge_tables_by_type([i \in 1..Len(good) |-> FrameOf(good[i])],
                                          CurrentTeam.school, CurrentTeam.stats_url,
                                          CurrentTeam.city_state)
            IN  IF m.raised
                THEN /\ sinks' = sinks
                     /\ teams_without_stats' =
                            Append(teams_without_stats,
                                   << CurrentTeam.school, CurrentTeam.stats_url, "Error", 0 >>)
                ELSE /\ teams_without_stats' = teams_without_stats
                     /\ \A t \in Range(Categories) :
                            sinks'[t] = IF t \in DOMAIN m.tables
                                        THEN to_csv(sinks[t], m.tables[t]) ELSE sinks[t] ]_vars

\* A team whose second table has a row longer than its header row was
\* processed: the batting tables before and after it are merged (athletes
\* 1, 2, 3), the pitching table is saved, and no record is written.
C8_Witness ==
    /\ pc \in {"loop", "done"} /\ idx = 2
    /\ state_teams[1].stats_url = <<"/","b","a","d","t","a","b","l","e">>
    /\ ~Extractable(Web(state_teams[1].stats_url).tables[2])
    /\ Len(Web(state_teams[1].stats_url).tables[2]) > 1
    /\ teams_without_stats = <<>>
    /\ Len(sinks["batting"]) = 4
    /\ Len(sinks["pitching"]) = 2

\* The turn of the loop appended lines to the sink of some category.
SinkReceivedRows ==
    \E t \in Range(Categories) : Len(sinks'[t]) > Len(sinks[t])

\* C11: after process_team returns for a team, exactly one of two outcomes
\* holds: at least one category sink received rows of the team and no
\* diagnostic record was written for it, or no category sink received rows of
\* the team and exactly one diagnostic record was written for it (so a team
\* of 7 or more tables of which none is classified ends with a record).
C11_OutputOrRecord ==
    [][ pc = "loop" =>
            \/ /\ SinkReceivedRows
               /\ teams_without_stats' = teams_without_stats
            \/ /\ sinks' = sinks
               /\ Len(teams_without_stats') = Len(teams_without_stats) + 1
               /\ teams_without_stats'[Len(teams_without_stats')][1] = CurrentTeam.school ]_vars

=============================================================================
